---- MODULE Spec2Model ----
(***************************************************************************)
(* LazyEnv: the interactive session of src/main.rs over the App struct of  *)
(* src/app.rs, the view built by src/ui.rs and the external operations of  *)
(* src/python.rs.                                                          *)
(*                                                                         *)
(* One iteration of the control loop of main is: draw, poll for at most    *)
(* one key event and handle it, then advance the status timer if the tick  *)
(* interval has elapsed.  pc = "poll" is the point after a draw that did   *)
(* not panic, pc = "tick" the point after the poll; the tick step ends     *)
(* with the draw of the next iteration.                                    *)
(*                                                                         *)
(* Indices are 0-based as in the source: At(s, i) is s[i] of the source.   *)
(* Strings are sequences of one-character strings.  A status message is    *)
(* the name of the format string that produced it.                         *)
(*                                                                         *)
(* A panic (an index out of bounds) ends the session at pc = "panic", the  *)
(* keys 'q' and Ctrl-c at pc = "quit".  The arms of AppState::PackageView  *)
(* are left out: no statement of main assigns that state.                  *)
(***************************************************************************)
EXTENDS Integers, Sequences, FiniteSets, TLC

VARIABLES
    state,                  \* App::state
    dialog_state,           \* App::dialog_state
    environments,           \* App::environments
    selected_environment,   \* App::selected_environment
    packages,               \* App::packages
    selected_package,       \* App::selected_package
    focus,                  \* App::focus
    input_text,             \* App::input_text
    status_message,         \* App::status_message
    status_message_timer,   \* App::status_message_timer
    show_global_packages,   \* App::show_global_packages
    pc,                     \* position in the loop of main
    last_key,               \* history: the key handled in this iteration
    calls,                  \* history: external calls made while handling it
    posted,                 \* history: status_message was assigned while handling it
    status_age,             \* history: ticks since a status was posted on an idle bar
    packages_from,          \* history: the listing that filled app.packages
    scenario                \* which inputs the environment of the session offers

app == <<state, dialog_state, environments, selected_environment, packages,
         selected_package, focus, input_text, status_message,
         status_message_timer, show_global_packages>>

hist == <<last_key, calls, posted, status_age, packages_from>>

vars == <<state, dialog_state, environments, selected_environment, packages,
          selected_package, focus, input_text, status_message,
          status_message_timer, show_global_packages, pc, last_key, calls,
          posted, status_age, packages_from, scenario>>

----------------------------------------------------------------------------
(* Bounds of the model.  A scenario fixes what the world around the       *)
(* session offers:                                                         *)
(*   session  up to MaxEnvs environments and MaxPkgs packages; while a     *)
(*            status is shown no tick interval elapses                     *)
(*   lists    one environment more and at most one package; ticks as in    *)
(*            session                                                      *)
(*   decay    at most one environment and one package; every tick interval *)
(*            may elapse, so a status runs its whole life                  *)
(*   tools    at most one environment and one package; install and         *)
(*            uninstall meet every combination of candidate executables    *)
(*   listing  at most one environment and one package; the listings meet   *)
(*            every combination of candidates, commands and outputs        *)
(*   discovery  at most two environments and one package; the probes       *)
(*            of list_environments meet every combination of outcomes      *)
(*   ticking  a world that stays as it is: every discovery finds the same  *)
(*            environment and every listing the same package, and create,  *)
(*            delete, install and uninstall fail; every tick interval may  *)
(*            elapse, as in decay                                          *)
(*   modal    at most two environments and one package; Down, Up and Tab   *)
(*            are pressed in every mode, and the listing that filled the   *)
(*            package list is remembered                                   *)

MaxEnvs == 2

MaxPkgs == 1

MaxInput == 1

----------------------------------------------------------------------------
(* Program constants and data *)

\* Option::None of selected_environment, selected_package; Some(i) is i
None == -1

\* the threshold of the status timer
StatusLifetime == 20

\* Option::None of status_message
NoStatus == "None"

Alphabet == {"B"}

Lower(c) == IF c = "A" THEN "a" ELSE IF c = "B" THEN "b" ELSE c

ToLowercase(s) == [k \in 1..Len(s) |-> Lower(s[k])]

Contains(s, t) == \E k \in 0..(Len(s) - Len(t)) : SubSeq(s, k + 1, k + Len(t)) = t

At(s, i) == s[i + 1]

RemoveAt(s, i) == SubSeq(s, 1, i) \o SubSeq(s, i + 2, Len(s))

Min(a, b) == IF a < b THEN a ELSE b

\* a.saturating_sub(b) on usize
SaturatingSub(a, b) == IF a > b THEN a - b ELSE 0

Range(s) == {s[k] : k \in 1..Len(s)}

\* PythonEnvironment, reduced to the fields the session reads
Env(n, p) == [name |-> n, path |-> p]

\* the directory create_environment targets: ~/.virtualenvs/<name>
VenvDir(n) == <<"/">> \o n

\* what a discovery can find, in source order: a system interpreter and two
\* directories under ~/.virtualenvs
Discoverable == <<Env(<<"S">>, <<"u">>), Env(<<"b">>, VenvDir(<<"b">>)), Env(<<"a">>, VenvDir(<<"a">>))>>

EnvBound ==
    IF scenario = "session" THEN MaxEnvs
    ELSE IF scenario = "lists" THEN MaxEnvs + 1
    ELSE IF scenario \in {"discovery", "modal"} THEN 2
    ELSE 1

PkgBound == IF scenario = "session" THEN MaxPkgs ELSE 1

\* how far the timer of a shown status may run
TickCap == IF scenario \in {"decay", "ticking"} THEN StatusLifetime + 1 ELSE 0

Found == SubSeq(Discoverable, 1, Min(EnvBound, Len(Discoverable)))

\* the lists list_environments returns where the scenario is not about the
\* discovery
Discoveries ==
    IF scenario = "ticking" THEN {Found}
    ELSE {SelectSeq(Found, LAMBDA e : e \in S) : S \in SUBSET Range(Found)}

PackageNames == [k \in 1..PkgBound |-> k]

PackageLists == {SelectSeq(PackageNames, LAMBDA p : p \in S) : S \in SUBSET (1..PkgBound)}

\* what create_environment meets: ~/.virtualenvs cannot be made; `python -m
\* venv` cannot be started; it exits non-zero; it succeeds and the version
\* of the new interpreter cannot be asked; it succeeds
CreateOutcomes == {"dir_err", "spawn_err", "exit_nonzero", "no_version", "created"}

\* the Err of a subcommand that exited non-zero carries its stderr
CreateFailure == "Failed to create environment: stderr"

\* the result of create_environment: world is what it met
CreateResult(ok, error, env, world) == [ok |-> ok, error |-> error, env |-> env, world |-> world]

\* a slip: the exit status of the subcommand is not looked at
create_environment_unchecked(w, name) ==
    IF w \in {"dir_err", "spawn_err"} THEN CreateResult(FALSE, "io", <<>>, w)
    ELSE IF w = "no_version" THEN CreateResult(FALSE, "Failed to create environment", <<>>, w)
    ELSE CreateResult(TRUE, "", Env(name, VenvDir(name)), w)

create_environment(w, name) ==
    IF w \in {"dir_err", "spawn_err"} THEN CreateResult(FALSE, "io", <<>>, w)
    ELSE IF w = "exit_nonzero" THEN CreateResult(FALSE, CreateFailure, <<>>, w)
    ELSE IF w = "no_version" THEN CreateResult(FALSE, "Failed to create environment", <<>>, w)
    ELSE CreateResult(TRUE, "", Env(name, VenvDir(name)), w)

\* the worlds of create_environment: all of them where the scenario is about
\* the tools, elsewhere one in which it succeeds and one in which it fails;
\* no more than EnvBound environments are held
CreateWorlds ==
    (IF scenario = "tools" THEN CreateOutcomes
     ELSE IF scenario = "ticking" THEN {"exit_nonzero"}
     ELSE {"created", "exit_nonzero"})
        \ (IF Len(environments) < EnvBound THEN {} ELSE {"created"})

\* the results of create_environment for the name typed
CreateResults == {create_environment(w, input_text) : w \in CreateWorlds}

\* a call of create_environment, with what it met
Creation(name, r) == [op |-> "create_environment", target |-> VenvDir(name), arg |-> name, ok |-> r.ok, run |-> r]

\* a call of an external operation, its target and whether it returned Ok
Call(op, target, arg, ok) == [op |-> op, target |-> target, arg |-> arg, ok |-> ok]

\* a call of list_packages or list_global_packages, with the list it returned
Listing(op, target, res) == [op |-> op, target |-> target, arg |-> <<>>, ok |-> res.ok, out |-> res.pkgs, run |-> res]

\* a call of list_environments, with the list it returned
Discovery(res) == [op |-> "list_environments", target |-> <<>>, arg |-> <<>>, ok |-> res.ok, out |-> res.envs, run |-> res]

----------------------------------------------------------------------------
(* python.rs: list_environments and its five probes.  A world tells what   *)
(* each probe meets.                                                       *)

\* what detect_system_python meets at `python` and at `python3`: the query
\* for the version fails; it succeeds and the query for the path cannot be
\* started; it succeeds and the query for the path exits non-zero; it
\* succeeds and the path is printed
NoInterpreter == [kind |-> "absent", path |-> <<>>]

PathQueryErr == [kind |-> "query_err", path |-> <<>>]

PathQueryFailed == [kind |-> "query_failed", path |-> <<>>]

Located(p) == [kind |-> "located", path |-> p]

\* the io::Result<()> of a probe and the accumulator as the probe leaves it
Probed(ok, envs) == [ok |-> ok, envs |-> envs]

detect_system_python(acc, w) ==
    IF w.python.kind = "query_err" THEN Probed(FALSE, acc)
    ELSE LET first == IF w.python.kind = "located" THEN Append(acc, Env(<<"S">>, w.python.path)) ELSE acc
         IN  IF w.python3.kind = "query_err" THEN Probed(FALSE, first)
             ELSE IF w.python3.kind = "located" /\ \A k \in 1..Len(first) : first[k].path # w.python3.path
             THEN Probed(TRUE, Append(first, Env(<<"S", "3">>, w.python3.path)))
             ELSE Probed(TRUE, first)

\* the other probes swallow what fails inside them and push what they find
detect_venv_environments(acc, w) == Probed(TRUE, acc \o w.venv)

detect_pyenv_environments(acc, w) == Probed(TRUE, acc \o w.pyenv)

detect_conda_environments(acc, w) == Probed(TRUE, acc \o w.conda)

detect_local_environments(acc, w) == Probed(TRUE, acc \o w.local)

\* the result of list_environments: world is what the probes met, probes the
\* results of the probes that ran
DiscoveryResult(ok, envs, world, probes) == [ok |-> ok, envs |-> envs, world |-> world, probes |-> probes]

\* a slip: the Err of detect_system_python is returned with `?`
list_environments_propagating(w) ==
    LET p1 == detect_system_python(<<>>, w)
        p2 == detect_venv_environments(p1.envs, w)
        p3 == detect_pyenv_environments(p2.envs, w)
        p4 == detect_conda_environments(p3.envs, w)
        p5 == detect_local_environments(p4.envs, w)
    IN  IF ~p1.ok THEN DiscoveryResult(FALSE, <<>>, w, <<p1.ok>>)
        ELSE DiscoveryResult(TRUE, p5.envs, w, <<p1.ok, p2.ok, p3.ok, p4.ok, p5.ok>>)

list_environments(w) ==
    LET p1 == detect_system_python(<<>>, w)
        p2 == detect_venv_environments(p1.envs, w)
        p3 == detect_pyenv_environments(p2.envs, w)
        p4 == detect_conda_environments(p3.envs, w)
        p5 == detect_local_environments(p4.envs, w)
    IN  DiscoveryResult(TRUE, p5.envs, w, <<p1.ok, p2.ok, p3.ok, p4.ok, p5.ok>>)

\* the world in which the probes find the list l of Discoveries
WorldFinding(l) ==
    [python |-> IF Discoverable[1] \in Range(l) THEN Located(Discoverable[1].path) ELSE NoInterpreter,
     python3 |-> NoInterpreter,
     venv |-> SelectSeq(l, LAMBDA e : e # Discoverable[1]),
     pyenv |-> <<>>,
     conda |-> <<>>,
     local |-> <<>>]

\* the worlds where the scenario is about the discovery: python3 may be the
\* interpreter python is, and the registry of conda may name a directory
\* that is under ~/.pyenv/versions too
AllDiscoveryWorlds ==
    [python : {NoInterpreter, PathQueryErr, PathQueryFailed, Located(<<"u">>)},
     python3 : {NoInterpreter, PathQueryErr, PathQueryFailed, Located(<<"u">>), Located(<<"v">>)},
     venv : {<<>>, <<Discoverable[2]>>},
     pyenv : {<<>>, <<Env(<<"p">>, <<"~", "p">>)>>},
     conda : {<<>>, <<Env(<<"c">>, <<"~", "p">>)>>},
     local : {<<>>, <<Env(<<"l">>, <<".", "l">>)>>}]

\* the results of list_environments; no more than EnvBound environments are
\* found
DiscoveryResults ==
    IF scenario = "discovery"
    THEN {r \in {list_environments(w) : w \in AllDiscoveryWorlds} : Len(r.envs) <= EnvBound}
    ELSE {list_environments(WorldFinding(l)) : l \in Discoveries}

\* the lists the session starts with: an Err leaves the list empty
InitialLists == {IF r.ok THEN r.envs ELSE <<>> : r \in DiscoveryResults}

----------------------------------------------------------------------------
(* python.rs: the chain of install_package and uninstall_package.  The     *)
(* paths are those of the build that is not for windows, relative to       *)
(* env_path.                                                               *)

\* what the chain meets at a candidate: the file does not exist,
\* Command::output() returns Err, the process exits non-zero, or it succeeds
ToolOutcomes == {"missing", "spawn_err", "exit_nonzero", "exit_ok"}

\* possible_pip_paths of install_package
InstallPipPaths == <<"bin/pip", "bin/pip3", "bin/python">>

\* a slip: the alias comes before the package manager
SwappedPipPaths == <<"bin/pip3", "bin/pip", "bin/python">>

\* possible_pip_paths of uninstall_package
UninstallPipPaths == <<"bin/pip", "bin/pip3", "bin/python">>

\* pip_path.file_name() is "python"
IsPython(pip_path) == pip_path = "bin/python"

InstallArgs(pip_path, package_name) ==
    IF IsPython(pip_path) THEN <<"-m", "pip", "install", package_name>> ELSE <<"install", package_name>>

UninstallArgs(pip_path, package_name) ==
    IF IsPython(pip_path) THEN <<"-m", "pip", "uninstall", "-y", package_name>> ELSE <<"uninstall", "-y", package_name>>

\* a process the chain started, or tried to start
Invocation(pip_path, args) == [path |-> pip_path, args |-> args]

\* the Err after the loop, and the Err of a process that exited non-zero
ToolMissing == "Could not find pip executable"

ExecutionFailure == "Failed: stderr"

\* the result of a chain: world is what it met, invoked what it ran
ChainResult(ok, error, paths, world, invoked) ==
    [ok |-> ok, error |-> error, candidates |-> paths, world |-> world, invoked |-> invoked]

\* the loop of install_package from candidate k on
RECURSIVE InstallFrom(_, _, _, _)
InstallFrom(w, package_name, k, invoked) ==
    IF k > Len(InstallPipPaths)
    THEN ChainResult(FALSE, ToolMissing, InstallPipPaths, w, invoked)
    ELSE LET pip_path == InstallPipPaths[k]
             ran == Append(invoked, Invocation(pip_path, InstallArgs(pip_path, package_name)))
         IN  IF w[k] = "missing" THEN InstallFrom(w, package_name, k + 1, invoked)
             ELSE IF w[k] = "exit_ok" THEN ChainResult(TRUE, "", InstallPipPaths, w, ran)
             ELSE IF w[k] = "exit_nonzero" THEN ChainResult(FALSE, ExecutionFailure, InstallPipPaths, w, ran)
             ELSE InstallFrom(w, package_name, k + 1, ran)

install_package(w, package_name) == InstallFrom(w, package_name, 1, <<>>)

\* the loop of uninstall_package from candidate k on
RECURSIVE UninstallFrom(_, _, _, _)
UninstallFrom(w, package_name, k, invoked) ==
    IF k > Len(UninstallPipPaths)
    THEN ChainResult(FALSE, ToolMissing, UninstallPipPaths, w, invoked)
    ELSE LET pip_path == UninstallPipPaths[k]
             ran == Append(invoked, Invocation(pip_path, UninstallArgs(pip_path, package_name)))
         IN  IF w[k] = "missing" THEN UninstallFrom(w, package_name, k + 1, invoked)
             ELSE IF w[k] = "exit_ok" THEN ChainResult(TRUE, "", UninstallPipPaths, w, ran)
             ELSE IF w[k] = "exit_nonzero" THEN ChainResult(FALSE, ExecutionFailure, UninstallPipPaths, w, ran)
             ELSE UninstallFrom(w, package_name, k + 1, ran)

uninstall_package(w, package_name) == UninstallFrom(w, package_name, 1, <<>>)

\* the worlds a chain of three candidates can meet
ToolWorlds == [1..3 -> ToolOutcomes]

\* where the scenario is not about the tools, one world in which the
\* operation succeeds and one in which it fails
InstallWorlds ==
    IF scenario = "tools" THEN ToolWorlds
    ELSE IF scenario = "ticking" THEN {<<"exit_nonzero", "missing", "missing">>}
    ELSE {<<"exit_ok", "missing", "missing">>, <<"exit_nonzero", "missing", "missing">>}

\* whether delete_environment returns Ok
DeleteResults == IF scenario = "ticking" THEN {FALSE} ELSE BOOLEAN

\* a call of install_package or uninstall_package, with what the chain did
Mutation(op, target, arg, r) == [op |-> op, target |-> target, arg |-> arg, ok |-> r.ok, run |-> r]

----------------------------------------------------------------------------
(* python.rs: the chains of list_packages and list_global_packages *)

\* what a listing step meets: the file does not exist; the process could not
\* be started; it could not be started or exited non-zero (where the source
\* does not tell the two apart); it exited non-zero; it exited cleanly with
\* output that is no array; it exited cleanly with an array, of which pkgs
\* are the entries that have a name and a version
Missing == [kind |-> "missing", pkgs |-> <<>>]

SpawnErr == [kind |-> "spawn_err", pkgs |-> <<>>]

Failed == [kind |-> "failed", pkgs |-> <<>>]

ExitNonZero == [kind |-> "exit_nonzero", pkgs |-> <<>>]

Unparsable == [kind |-> "unparsable", pkgs |-> <<>>]

Parsed(l) == [kind |-> "parsed", pkgs |-> l]

\* possible_pip_paths of list_packages
ListPipPaths == <<"bin/pip", "bin/pip3", "bin/python">>

ListArgs(pip_path) ==
    IF IsPython(pip_path) THEN <<"-m", "pip", "list", "--format=json">> ELSE <<"list", "--format=json">>

\* the script that prints pkg_resources.working_set
ScriptArgs == <<"-c", "script">>

\* the result of a listing: world is what it met, invoked what it ran
ListResult(ok, pkgs, paths, world, invoked) ==
    [ok |-> ok, pkgs |-> pkgs, candidates |-> paths, world |-> world, invoked |-> invoked]

\* the end of list_packages: python_path is the third candidate; world[4] is
\* what running the script on it meets
Introspect(w, invoked) ==
    LET ran == Append(invoked, Invocation("bin/python", ScriptArgs))
    IN  IF w[3].kind = "missing" THEN ListResult(TRUE, <<>>, ListPipPaths, w, invoked)
        ELSE IF w[4].kind = "spawn_err" THEN ListResult(FALSE, <<>>, ListPipPaths, w, ran)
        ELSE IF w[4].kind = "parsed" THEN ListResult(TRUE, w[4].pkgs, ListPipPaths, w, ran)
        ELSE ListResult(TRUE, <<>>, ListPipPaths, w, ran)

\* a slip: a candidate whose output is no array ends the listing with what
\* was collected
RECURSIVE ListFromStopsAtUnparsable(_, _, _)
ListFromStopsAtUnparsable(w, k, invoked) ==
    IF k > Len(ListPipPaths)
    THEN Introspect(w, invoked)
    ELSE LET pip_path == ListPipPaths[k]
             ran == Append(invoked, Invocation(pip_path, ListArgs(pip_path)))
         IN  IF w[k].kind = "missing" THEN ListFromStopsAtUnparsable(w, k + 1, invoked)
             ELSE IF w[k].kind = "parsed" THEN ListResult(TRUE, w[k].pkgs, ListPipPaths, w, ran)
             ELSE IF w[k].kind = "unparsable" THEN ListResult(TRUE, <<>>, ListPipPaths, w, ran)
             ELSE ListFromStopsAtUnparsable(w, k + 1, ran)

\* the loop of list_packages from candidate k on
RECURSIVE ListFrom(_, _, _)
ListFrom(w, k, invoked) ==
    IF k > Len(ListPipPaths)
    THEN Introspect(w, invoked)
    ELSE LET pip_path == ListPipPaths[k]
             ran == Append(invoked, Invocation(pip_path, ListArgs(pip_path)))
         IN  IF w[k].kind = "missing" THEN ListFrom(w, k + 1, invoked)
             ELSE IF w[k].kind = "parsed" THEN ListResult(TRUE, w[k].pkgs, ListPipPaths, w, ran)
             ELSE ListFrom(w, k + 1, ran)

list_packages(w) == ListFrom(w, 1, <<>>)

\* the commands of list_global_packages, found on the search path
GlobalCommands == <<"pip", "pip3", "python", "python3">>

GlobalArgs(cmd) == IF cmd \in {"pip", "pip3"} THEN <<"list", "--format=json">> ELSE ScriptArgs

\* the loop over python and python3, entered with nothing collected
RECURSIVE GlobalScriptFrom(_, _, _)
GlobalScriptFrom(w, k, invoked) ==
    IF k > Len(GlobalCommands)
    THEN ListResult(TRUE, <<>>, GlobalCommands, w, invoked)
    ELSE LET ran == Append(invoked, Invocation(GlobalCommands[k], GlobalArgs(GlobalCommands[k])))
         IN  IF w[k].kind = "parsed" THEN ListResult(TRUE, w[k].pkgs, GlobalCommands, w, ran)
             ELSE GlobalScriptFrom(w, k + 1, ran)

list_global_packages(w) ==
    LET pip == <<Invocation("pip", GlobalArgs("pip"))>>
        pip3 == Append(pip, Invocation("pip3", GlobalArgs("pip3")))
    IN  IF w[1].kind \in {"parsed", "unparsable"}
        THEN ListResult(TRUE, w[1].pkgs, GlobalCommands, w, pip)
        ELSE IF w[2].kind = "parsed" /\ w[2].pkgs # <<>>
        THEN ListResult(TRUE, w[2].pkgs, GlobalCommands, w, pip3)
        ELSE GlobalScriptFrom(w, 3, pip3)

\* the arrays an output holds where the scenario is about the listing:
\* none or one package
OutputLists == {<<>>, <<1>>}

\* what a candidate file of list_packages can meet, and the script on the
\* interpreter
CandidateOutcomes == {Missing, Failed, Unparsable} \cup {Parsed(l) : l \in OutputLists}

ScriptOutcomes == {SpawnErr, ExitNonZero, Unparsable} \cup {Parsed(l) : l \in OutputLists}

\* what a command of list_global_packages can meet
CommandOutcomes == {Failed, Unparsable} \cup {Parsed(l) : l \in OutputLists}

\* the script runs on the third candidate, so it meets something exactly
\* when that file exists
AllListWorlds ==
    {w \in [1..4 -> CandidateOutcomes \cup ScriptOutcomes] :
        /\ \A k \in 1..3 : w[k] \in CandidateOutcomes
        /\ w[4] \in ScriptOutcomes \cup {Missing}
        /\ (w[3] = Missing) <=> (w[4] = Missing)}

AllGlobalWorlds == [1..4 -> CommandOutcomes]

AllListResults == {list_packages(w) : w \in AllListWorlds}

AllGlobalListResults == {list_global_packages(w) : w \in AllGlobalWorlds}

\* the results of list_packages; where the scenario is not about the
\* listing, one world for each result
ListResults ==
    IF scenario = "listing" THEN AllListResults
    ELSE IF scenario = "ticking" THEN {list_packages(<<Parsed(PackageNames), Missing, Missing, Missing>>)}
    ELSE {list_packages(<<Parsed(l), Missing, Missing, Missing>>) : l \in PackageLists}
         \cup {list_packages(<<Missing, Missing, Failed, SpawnErr>>)}

\* the results of list_global_packages
GlobalListResults ==
    IF scenario = "listing" THEN AllGlobalListResults
    ELSE IF scenario = "ticking" THEN {list_global_packages(<<Parsed(PackageNames), Failed, Failed, Failed>>)}
    ELSE {list_global_packages(<<Parsed(l), Failed, Failed, Failed>>) : l \in PackageLists}

----------------------------------------------------------------------------
(* The view: ui indexes environments[idx] without a bounds check *)

EnvIndexOutOfBounds(envs, sel) == sel # None /\ sel >= Len(envs)

RenderPanics(st, ds, envs, sel, msg, glob) ==
    \/ ~glob /\ EnvIndexOutOfBounds(envs, sel)
    \/ msg = NoStatus /\ EnvIndexOutOfBounds(envs, sel)
    \/ st = "DeleteEnvironment" /\ ds = "Confirm" /\ EnvIndexOutOfBounds(envs, sel)

----------------------------------------------------------------------------
(* History of the iteration *)

\* where app.packages comes from: nothing was listed yet or the list was
\* cleared, the listing of an environment, the machine-wide listing
NoSource == [kind |-> "none", path |-> <<>>]

SourceOf(c) ==
    IF c.op = "list_global_packages" THEN [kind |-> "global", path |-> <<>>]
    ELSE [kind |-> "environment", path |-> c.target]

\* app.packages is assigned the list of a listing that returned Ok, and
\* cleared when the last environment was deleted
SourceAfter(cs) ==
    LET loaded == {k \in 1..Len(cs) : cs[k].op \in {"list_packages", "list_global_packages"} /\ cs[k].ok}
    IN  IF loaded # {} THEN SourceOf(cs[CHOOSE k \in loaded : TRUE])
        ELSE IF Len(cs) = 1 /\ cs[1].op = "delete_environment" /\ cs[1].ok THEN NoSource
        ELSE packages_from

Handled(key, cs, p) ==
    /\ last_key' = key
    /\ calls' = cs
    /\ posted' = p
    /\ status_age' = IF scenario \notin {"decay", "ticking"} THEN status_age
                     ELSE IF p THEN (IF status_message = NoStatus THEN 0 ELSE -1) ELSE status_age
    /\ packages_from' = IF scenario # "modal" THEN packages_from ELSE SourceAfter(cs)
    /\ scenario' = scenario

\* the result of `match list_packages(..) { Ok(pkgs) => .., Err(e) => .. }`
PackagesAfter(res) == IF res.ok THEN res.pkgs ELSE packages

SelectedPackageAfter(res) == IF res.ok /\ res.pkgs # <<>> THEN 0 ELSE selected_package

----------------------------------------------------------------------------
InitApp ==
    /\ state = "Normal"
    /\ dialog_state = "None"
    /\ selected_environment = (IF environments # <<>> THEN 0 ELSE None)
    /\ packages = <<>>
    /\ selected_package = None
    /\ focus = "Environments"
    /\ input_text = <<>>
    /\ status_message = NoStatus
    /\ status_message_timer = 0
    /\ show_global_packages = FALSE
    /\ pc = "poll"
    /\ last_key = "none"
    /\ calls = <<>>
    /\ posted = FALSE
    /\ status_age = -1
    /\ packages_from = NoSource

Init ==
    /\ scenario = "session"
    /\ environments \in InitialLists
    /\ InitApp

InitLists ==
    /\ scenario = "lists"
    /\ environments \in InitialLists
    /\ InitApp

InitDecay ==
    /\ scenario = "decay"
    /\ environments \in InitialLists
    /\ InitApp

InitTools ==
    /\ scenario = "tools"
    /\ environments \in InitialLists
    /\ InitApp

InitListing ==
    /\ scenario = "listing"
    /\ environments \in InitialLists
    /\ InitApp

InitDiscovery ==
    /\ scenario = "discovery"
    /\ environments \in InitialLists
    /\ InitApp

InitModal ==
    /\ scenario = "modal"
    /\ environments \in InitialLists
    /\ InitApp

InitTicking ==
    /\ scenario = "ticking"
    /\ environments \in InitialLists
    /\ InitApp

----------------------------------------------------------------------------
(* AppState::Normal *)

\* a slip: the last element is not followed by the first
NextIndexClamped(sel, len) == IF len > 0 THEN (IF sel # None THEN Min(sel + 1, len - 1) ELSE 0) ELSE sel

\* App::next_environment, App::next_package
NextIndex(sel, len) == IF len > 0 THEN (IF sel # None THEN (sel + 1) % len ELSE 0) ELSE sel

\* App::previous_environment, App::previous_package
PreviousIndex(sel, len) == IF len > 0 THEN (IF sel # None THEN (sel + len - 1) % len ELSE len - 1) ELSE sel

KeyQuit ==
    /\ pc = "poll" /\ state = "Normal"
    /\ pc' = "quit"
    /\ Handled("q", <<>>, FALSE)
    /\ UNCHANGED app

\* a slip: both lists move, whichever has the focus
KeyDownMovesBoth ==
    /\ pc = "poll" /\ state = "Normal"
    /\ selected_environment' = NextIndex(selected_environment, Len(environments))
    /\ selected_package' = NextIndex(selected_package, Len(packages))
    /\ pc' = "tick"
    /\ Handled("Down", <<>>, FALSE)
    /\ UNCHANGED <<state, dialog_state, environments, packages, focus, input_text, status_message, status_message_timer, show_global_packages>>

KeyDown ==
    /\ pc = "poll" /\ state = "Normal"
    /\ selected_environment' = (IF focus = "Environments" THEN NextIndex(selected_environment, Len(environments)) ELSE selected_environment)
    /\ selected_package' = (IF focus = "Packages" THEN NextIndex(selected_package, Len(packages)) ELSE selected_package)
    /\ pc' = "tick"
    /\ Handled("Down", <<>>, FALSE)
    /\ UNCHANGED <<state, dialog_state, environments, packages, focus, input_text, status_message, status_message_timer, show_global_packages>>

KeyUp ==
    /\ pc = "poll" /\ state = "Normal"
    /\ selected_environment' = (IF focus = "Environments" THEN PreviousIndex(selected_environment, Len(environments)) ELSE selected_environment)
    /\ selected_package' = (IF focus = "Packages" THEN PreviousIndex(selected_package, Len(packages)) ELSE selected_package)
    /\ pc' = "tick"
    /\ Handled("Up", <<>>, FALSE)
    /\ UNCHANGED <<state, dialog_state, environments, packages, focus, input_text, status_message, status_message_timer, show_global_packages>>

\* App::toggle_focus
KeyTab ==
    /\ pc = "poll" /\ state = "Normal"
    /\ focus' = (IF focus = "Environments" THEN "Packages" ELSE "Environments")
    /\ selected_package' = (IF focus = "Environments"
                            THEN (IF packages = <<>> THEN None
                                  ELSE IF selected_package = None THEN 0 ELSE selected_package)
                            ELSE selected_package)
    /\ selected_environment' = (IF focus = "Packages"
                                THEN (IF environments = <<>> THEN None
                                      ELSE IF selected_environment = None THEN 0 ELSE selected_environment)
                                ELSE selected_environment)
    /\ pc' = "tick"
    /\ Handled("Tab", <<>>, FALSE)
    /\ UNCHANGED <<state, dialog_state, environments, packages, input_text, status_message, status_message_timer, show_global_packages>>

KeyEnter ==
    /\ pc = "poll" /\ state = "Normal"
    /\ IF selected_environment = None
        THEN /\ pc' = "tick"
             /\ Handled("Enter", <<>>, FALSE)
             /\ UNCHANGED app
        ELSE IF EnvIndexOutOfBounds(environments, selected_environment)
        THEN /\ pc' = "panic"
             /\ Handled("Enter", <<>>, FALSE)
             /\ UNCHANGED app
        ELSE \E res \in ListResults :
                 /\ packages' = PackagesAfter(res)
                 /\ selected_package' = SelectedPackageAfter(res)
                 /\ status_message' = (IF res.ok THEN status_message ELSE "ErrListing")
                 /\ pc' = "tick"
                 /\ Handled("Enter", <<Listing("list_packages", At(environments, selected_environment).path, res)>>, ~res.ok)
                 /\ UNCHANGED <<state, dialog_state, environments, selected_environment, focus, input_text, status_message_timer, show_global_packages>>

KeyN ==
    /\ pc = "poll" /\ state = "Normal"
    /\ state' = "CreateEnvironment"
    /\ input_text' = <<>>
    /\ pc' = "tick"
    /\ Handled("n", <<>>, FALSE)
    /\ UNCHANGED <<dialog_state, environments, selected_environment, packages, selected_package, focus, status_message, status_message_timer, show_global_packages>>

\* a slip: the environment is deleted at once, without the confirmation
KeyDDeletesAtOnce ==
    /\ pc = "poll" /\ state = "Normal"
    /\ selected_environment # None /\ ~EnvIndexOutOfBounds(environments, selected_environment)
    /\ environments' = RemoveAt(environments, selected_environment)
    /\ selected_environment' = (IF Len(environments) = 1 THEN None ELSE Min(selected_environment, Len(environments) - 2))
    /\ status_message' = "Deleted"
    /\ pc' = "tick"
    /\ Handled("d", <<Call("delete_environment", At(environments, selected_environment).path, <<>>, TRUE)>>, TRUE)
    /\ UNCHANGED <<state, dialog_state, packages, selected_package, focus, input_text, status_message_timer, show_global_packages>>

KeyD ==
    /\ pc = "poll" /\ state = "Normal"
    /\ state' = (IF selected_environment # None THEN "DeleteEnvironment" ELSE state)
    /\ dialog_state' = (IF selected_environment # None THEN "Confirm" ELSE dialog_state)
    /\ pc' = "tick"
    /\ Handled("d", <<>>, FALSE)
    /\ UNCHANGED <<environments, selected_environment, packages, selected_package, focus, input_text, status_message, status_message_timer, show_global_packages>>

KeyI ==
    /\ pc = "poll" /\ state = "Normal"
    /\ state' = (IF selected_environment # None THEN "InstallPackage" ELSE state)
    /\ input_text' = (IF selected_environment # None THEN <<>> ELSE input_text)
    /\ pc' = "tick"
    /\ Handled("i", <<>>, FALSE)
    /\ UNCHANGED <<dialog_state, environments, selected_environment, packages, selected_package, focus, status_message, status_message_timer, show_global_packages>>

\* the guard of KeyCode::Char('r')
CanUninstall == selected_environment # None /\ selected_package # None /\ selected_package < Len(packages)

KeyR ==
    /\ pc = "poll" /\ state = "Normal"
    /\ state' = (IF CanUninstall THEN "UninstallPackage" ELSE state)
    /\ dialog_state' = (IF CanUninstall THEN "Confirm" ELSE dialog_state)
    /\ pc' = "tick"
    /\ Handled("r", <<>>, FALSE)
    /\ UNCHANGED <<environments, selected_environment, packages, selected_package, focus, input_text, status_message, status_message_timer, show_global_packages>>

\* a slip: the text of the last dialog is kept
KeySKeepsText ==
    /\ pc = "poll" /\ state = "Normal"
    /\ state' = "SearchEnvironment"
    /\ pc' = "tick"
    /\ Handled("s", <<>>, FALSE)
    /\ UNCHANGED <<dialog_state, environments, selected_environment, packages, selected_package, focus, input_text, status_message, status_message_timer, show_global_packages>>

KeyS ==
    /\ pc = "poll" /\ state = "Normal"
    /\ state' = "SearchEnvironment"
    /\ input_text' = <<>>
    /\ pc' = "tick"
    /\ Handled("s", <<>>, FALSE)
    /\ UNCHANGED <<dialog_state, environments, selected_environment, packages, selected_package, focus, status_message, status_message_timer, show_global_packages>>

\* a slip: the global listing is not stored
KeyGKeepsList ==
    /\ pc = "poll" /\ state = "Normal"
    /\ show_global_packages' = ~show_global_packages
    /\ IF ~show_global_packages
        THEN \E glob \in GlobalListResults :
                 /\ packages' = packages
                 /\ selected_package' = SelectedPackageAfter(glob)
                 /\ status_message' = (IF glob.ok THEN status_message ELSE "ErrGlobal")
                 /\ pc' = "tick"
                 /\ Handled("g", <<Listing("list_global_packages", <<>>, glob)>>, ~glob.ok)
        ELSE IF selected_environment = None
        THEN /\ pc' = "tick"
             /\ Handled("g", <<>>, FALSE)
             /\ UNCHANGED <<packages, selected_package, status_message>>
        ELSE IF EnvIndexOutOfBounds(environments, selected_environment)
        THEN /\ pc' = "panic"
             /\ Handled("g", <<>>, FALSE)
             /\ UNCHANGED <<packages, selected_package, status_message>>
        ELSE \E res \in ListResults :
                 /\ packages' = PackagesAfter(res)
                 /\ selected_package' = SelectedPackageAfter(res)
                 /\ status_message' = (IF res.ok THEN status_message ELSE "ErrListing")
                 /\ pc' = "tick"
                 /\ Handled("g", <<Listing("list_packages", At(environments, selected_environment).path, res)>>, ~res.ok)
    /\ UNCHANGED <<state, dialog_state, environments, selected_environment, focus, input_text, status_message_timer>>

KeyG ==
    /\ pc = "poll" /\ state = "Normal"
    /\ show_global_packages' = ~show_global_packages
    /\ IF ~show_global_packages
        THEN \E glob \in GlobalListResults :
                 /\ packages' = PackagesAfter(glob)
                 /\ selected_package' = SelectedPackageAfter(glob)
                 /\ status_message' = (IF glob.ok THEN status_message ELSE "ErrGlobal")
                 /\ pc' = "tick"
                 /\ Handled("g", <<Listing("list_global_packages", <<>>, glob)>>, ~glob.ok)
        ELSE IF selected_environment = None
        THEN /\ pc' = "tick"
             /\ Handled("g", <<>>, FALSE)
             /\ UNCHANGED <<packages, selected_package, status_message>>
        ELSE IF EnvIndexOutOfBounds(environments, selected_environment)
        THEN /\ pc' = "panic"
             /\ Handled("g", <<>>, FALSE)
             /\ UNCHANGED <<packages, selected_package, status_message>>
        ELSE \E res \in ListResults :
                 /\ packages' = PackagesAfter(res)
                 /\ selected_package' = SelectedPackageAfter(res)
                 /\ status_message' = (IF res.ok THEN status_message ELSE "ErrListing")
                 /\ pc' = "tick"
                 /\ Handled("g", <<Listing("list_packages", At(environments, selected_environment).path, res)>>, ~res.ok)
    /\ UNCHANGED <<state, dialog_state, environments, selected_environment, focus, input_text, status_message_timer>>

KeyRefresh ==
    /\ pc = "poll" /\ state = "Normal"
    /\ \E res \in DiscoveryResults :
        LET envs == res.envs
        IN  IF res.ok
            THEN /\ environments' = envs
                 /\ selected_environment' = (IF envs # <<>> THEN 0 ELSE selected_environment)
                 /\ status_message' = (IF envs # <<>> THEN "Refreshed" ELSE status_message)
                 /\ Handled("R", <<Discovery(res)>>, envs # <<>>)
            ELSE /\ status_message' = "ErrRefresh"
                 /\ Handled("R", <<Discovery(res)>>, TRUE)
                 /\ UNCHANGED <<environments, selected_environment>>
    /\ pc' = "tick"
    /\ UNCHANGED <<state, dialog_state, packages, selected_package, focus, input_text, status_message_timer, show_global_packages>>

KeyX ==
    /\ pc = "poll" /\ state = "Normal"
    /\ state' = "HelpMenu"
    /\ pc' = "tick"
    /\ Handled("x", <<>>, FALSE)
    /\ UNCHANGED <<dialog_state, environments, selected_environment, packages, selected_package, focus, input_text, status_message, status_message_timer, show_global_packages>>

\* a slip: the status ages on every iteration of the loop, not on ticks alone
KeyIgnoredAgesStatus ==
    /\ pc = "poll"
    /\ pc' = "tick"
    /\ Handled("other", <<>>, FALSE)
    /\ status_message_timer' = (IF status_message # NoStatus /\ status_message_timer < StatusLifetime
                                THEN status_message_timer + 1 ELSE status_message_timer)
    /\ UNCHANGED <<state, dialog_state, environments, selected_environment, packages, selected_package, focus, input_text, status_message, show_global_packages>>

NavigationKeys == {"Down", "Up", "Tab"}

\* the keys that fall to `_ => {}`
IgnoredKeys ==
    IF scenario = "modal" /\ state # "Normal" THEN NavigationKeys \cup {"other"} ELSE {"other"}

\* a slip: outside Normal the arrow keys still move the selection of the
\* focused list and Tab still changes the focus
KeyIgnoredRoutesNavigation ==
    /\ pc = "poll"
    /\ \E key \in IgnoredKeys :
        /\ selected_environment' = (IF key = "Down" /\ focus = "Environments"
                                    THEN NextIndex(selected_environment, Len(environments))
                                    ELSE IF key = "Up" /\ focus = "Environments"
                                    THEN PreviousIndex(selected_environment, Len(environments))
                                    ELSE selected_environment)
        /\ selected_package' = (IF key = "Down" /\ focus = "Packages"
                                THEN NextIndex(selected_package, Len(packages))
                                ELSE IF key = "Up" /\ focus = "Packages"
                                THEN PreviousIndex(selected_package, Len(packages))
                                ELSE selected_package)
        /\ focus' = (IF key # "Tab" THEN focus
                     ELSE IF focus = "Environments" THEN "Packages" ELSE "Environments")
        /\ Handled(key, <<>>, FALSE)
    /\ pc' = "tick"
    /\ UNCHANGED <<state, dialog_state, environments, packages, input_text, status_message, status_message_timer, show_global_packages>>

\* a key no arm of the mode matches, or an event that is no key; outside
\* Normal, Down, Up and Tab are such keys
KeyIgnored ==
    /\ pc = "poll"
    /\ pc' = "tick"
    /\ \E key \in IgnoredKeys : Handled(key, <<>>, FALSE)
    /\ UNCHANGED app

----------------------------------------------------------------------------
(* AppState::HelpMenu *)

HelpClose ==
    /\ pc = "poll" /\ state = "HelpMenu"
    /\ state' = "Normal"
    /\ pc' = "tick"
    /\ Handled("Esc", <<>>, FALSE)
    /\ UNCHANGED <<dialog_state, environments, selected_environment, packages, selected_package, focus, input_text, status_message, status_message_timer, show_global_packages>>


\* String::pop
Pop(s) == IF s = <<>> THEN s ELSE SubSeq(s, 1, Len(s) - 1)

----------------------------------------------------------------------------
(* AppState::CreateEnvironment *)

CreateEsc ==
    /\ pc = "poll" /\ state = "CreateEnvironment"
    /\ state' = "Normal"
    /\ pc' = "tick"
    /\ Handled("Esc", <<>>, FALSE)
    /\ UNCHANGED <<dialog_state, environments, selected_environment, packages, selected_package, focus, input_text, status_message, status_message_timer, show_global_packages>>

CreateChar ==
    /\ pc = "poll" /\ state = "CreateEnvironment"
    /\ Len(input_text) < MaxInput
    /\ \E c \in Alphabet : input_text' = Append(input_text, c)
    /\ pc' = "tick"
    /\ Handled("Char", <<>>, FALSE)
    /\ UNCHANGED <<state, dialog_state, environments, selected_environment, packages, selected_package, focus, status_message, status_message_timer, show_global_packages>>

CreateBackspace ==
    /\ pc = "poll" /\ state = "CreateEnvironment"
    /\ input_text' = Pop(input_text)
    /\ pc' = "tick"
    /\ Handled("Backspace", <<>>, FALSE)
    /\ UNCHANGED <<state, dialog_state, environments, selected_environment, packages, selected_package, focus, status_message, status_message_timer, show_global_packages>>

CreateEnter ==
    /\ pc = "poll" /\ state = "CreateEnvironment"
    /\ \E r \in CreateResults :
        IF input_text = <<>>
        THEN /\ Handled("Enter", <<>>, FALSE)
             /\ UNCHANGED <<state, environments, selected_environment, packages, selected_package, status_message>>
        ELSE IF r.ok
        THEN \E res \in ListResults :
                 /\ environments' = Append(environments, r.env)
                 /\ selected_environment' = Len(environments')  - 1
                 /\ packages' = PackagesAfter(res)
                 /\ selected_package' = SelectedPackageAfter(res)
                 /\ state' = "Normal"
                 /\ status_message' = "Created"
                 /\ Handled("Enter", <<Creation(input_text, r),
                                       Listing("list_packages", r.env.path, res)>>, TRUE)
        ELSE /\ status_message' = "ErrCreate"
             /\ Handled("Enter", <<Creation(input_text, r)>>, TRUE)
             /\ UNCHANGED <<state, environments, selected_environment, packages, selected_package>>
    /\ pc' = "tick"
    /\ UNCHANGED <<dialog_state, focus, input_text, status_message_timer, show_global_packages>>

----------------------------------------------------------------------------
(* AppState::DeleteEnvironment *)

DeleteEsc ==
    /\ pc = "poll" /\ state = "DeleteEnvironment"
    /\ state' = "Normal"
    /\ dialog_state' = "None"
    /\ pc' = "tick"
    /\ Handled("Esc", <<>>, FALSE)
    /\ UNCHANGED <<environments, selected_environment, packages, selected_package, focus, input_text, status_message, status_message_timer, show_global_packages>>

\* a slip: the dialog flag is left at Confirm
DeleteNoKeepsDialog ==
    /\ pc = "poll" /\ state = "DeleteEnvironment"
    /\ state' = "Normal"
    /\ pc' = "tick"
    /\ Handled("n", <<>>, FALSE)
    /\ UNCHANGED <<dialog_state, environments, selected_environment, packages, selected_package, focus, input_text, status_message, status_message_timer, show_global_packages>>

DeleteNo ==
    /\ pc = "poll" /\ state = "DeleteEnvironment"
    /\ state' = "Normal"
    /\ dialog_state' = "None"
    /\ pc' = "tick"
    /\ Handled("n", <<>>, FALSE)
    /\ UNCHANGED <<environments, selected_environment, packages, selected_package, focus, input_text, status_message, status_message_timer, show_global_packages>>

\* a slip: the element before the deleted one is selected
SelectionAfterDeletePrevious(idx, left) == SaturatingSub(idx, 1)

\* Some(idx.min(app.environments.len() - 1))
SelectionAfterDelete(idx, left) == Min(idx, Len(left) - 1)

DeleteYes ==
    /\ pc = "poll" /\ state = "DeleteEnvironment"
    /\ \E ok \in DeleteResults :
        LET idx == selected_environment
            env_path == At(environments, idx).path
            left == RemoveAt(environments, idx)
            sel == SelectionAfterDelete(idx, left)
        IN  IF idx = None
            THEN /\ state' = "Normal"
                 /\ dialog_state' = "None"
                 /\ pc' = "tick"
                 /\ Handled("y", <<>>, FALSE)
                 /\ UNCHANGED <<environments, selected_environment, packages, selected_package, status_message>>
            ELSE IF EnvIndexOutOfBounds(environments, idx)
            THEN /\ pc' = "panic"
                 /\ Handled("y", <<>>, FALSE)
                 /\ UNCHANGED <<state, dialog_state, environments, selected_environment, packages, selected_package, status_message>>
            ELSE IF ~ok
            THEN /\ status_message' = "ErrDelete"
                 /\ state' = "Normal"
                 /\ dialog_state' = "None"
                 /\ pc' = "tick"
                 /\ Handled("y", <<Call("delete_environment", env_path, <<>>, FALSE)>>, TRUE)
                 /\ UNCHANGED <<environments, selected_environment, packages, selected_package>>
            ELSE IF left = <<>>
            THEN /\ environments' = left
                 /\ selected_environment' = None
                 /\ packages' = <<>>
                 /\ status_message' = "Deleted"
                 /\ state' = "Normal"
                 /\ dialog_state' = "None"
                 /\ pc' = "tick"
                 /\ Handled("y", <<Call("delete_environment", env_path, <<>>, TRUE)>>, TRUE)
                 /\ UNCHANGED selected_package
            ELSE \E res \in ListResults :
                     /\ environments' = left
                     /\ selected_environment' = sel
                     /\ packages' = PackagesAfter(res)
                     /\ selected_package' = SelectedPackageAfter(res)
                     /\ status_message' = "Deleted"
                     /\ state' = "Normal"
                     /\ dialog_state' = "None"
                     /\ pc' = "tick"
                     /\ Handled("y", <<Call("delete_environment", env_path, <<>>, TRUE),
                                       Listing("list_packages", At(left, sel).path, res)>>, TRUE)
    /\ UNCHANGED <<focus, input_text, status_message_timer, show_global_packages>>

----------------------------------------------------------------------------
(* AppState::InstallPackage *)

InstallEsc ==
    /\ pc = "poll" /\ state = "InstallPackage"
    /\ state' = "Normal"
    /\ pc' = "tick"
    /\ Handled("Esc", <<>>, FALSE)
    /\ UNCHANGED <<dialog_state, environments, selected_environment, packages, selected_package, focus, input_text, status_message, status_message_timer, show_global_packages>>

InstallChar ==
    /\ pc = "poll" /\ state = "InstallPackage"
    /\ Len(input_text) < MaxInput
    /\ \E c \in Alphabet : input_text' = Append(input_text, c)
    /\ pc' = "tick"
    /\ Handled("Char", <<>>, FALSE)
    /\ UNCHANGED <<state, dialog_state, environments, selected_environment, packages, selected_package, focus, status_message, status_message_timer, show_global_packages>>

InstallBackspace ==
    /\ pc = "poll" /\ state = "InstallPackage"
    /\ input_text' = Pop(input_text)
    /\ pc' = "tick"
    /\ Handled("Backspace", <<>>, FALSE)
    /\ UNCHANGED <<state, dialog_state, environments, selected_environment, packages, selected_package, focus, status_message, status_message_timer, show_global_packages>>

\* a slip: the name is not checked for emptiness
InstallEnterUnguarded ==
    /\ pc = "poll" /\ state = "InstallPackage"
    /\ \E w \in InstallWorlds :
        LET r == install_package(w, input_text)
            ok == r.ok
            idx == selected_environment
            env_path == At(environments, idx).path
        IN  IF idx = None
            THEN /\ state' = "Normal"
                 /\ pc' = "tick"
                 /\ Handled("Enter", <<>>, FALSE)
                 /\ UNCHANGED <<packages, selected_package, status_message>>
            ELSE IF EnvIndexOutOfBounds(environments, idx)
            THEN /\ pc' = "panic"
                 /\ Handled("Enter", <<>>, FALSE)
                 /\ UNCHANGED <<state, packages, selected_package, status_message>>
            ELSE IF ~ok
            THEN /\ status_message' = "ErrInstall"
                 /\ state' = "Normal"
                 /\ pc' = "tick"
                 /\ Handled("Enter", <<Mutation("install_package", env_path, input_text, r)>>, TRUE)
                 /\ UNCHANGED <<packages, selected_package>>
            ELSE \E res \in ListResults :
                     /\ packages' = PackagesAfter(res)
                     /\ selected_package' = SelectedPackageAfter(res)
                     /\ status_message' = "Installed"
                     /\ state' = "Normal"
                     /\ pc' = "tick"
                     /\ Handled("Enter", <<Mutation("install_package", env_path, input_text, r),
                                           Listing("list_packages", env_path, res)>>, TRUE)
    /\ UNCHANGED <<dialog_state, environments, selected_environment, focus, input_text, status_message_timer, show_global_packages>>

InstallEnter ==
    /\ pc = "poll" /\ state = "InstallPackage"
    /\ \E w \in InstallWorlds :
        LET r == install_package(w, input_text)
            ok == r.ok
            idx == selected_environment
            env_path == At(environments, idx).path
        IN  IF input_text = <<>> \/ idx = None
            THEN /\ state' = "Normal"
                 /\ pc' = "tick"
                 /\ Handled("Enter", <<>>, FALSE)
                 /\ UNCHANGED <<packages, selected_package, status_message>>
            ELSE IF EnvIndexOutOfBounds(environments, idx)
            THEN /\ pc' = "panic"
                 /\ Handled("Enter", <<>>, FALSE)
                 /\ UNCHANGED <<state, packages, selected_package, status_message>>
            ELSE IF ~ok
            THEN /\ status_message' = "ErrInstall"
                 /\ state' = "Normal"
                 /\ pc' = "tick"
                 /\ Handled("Enter", <<Mutation("install_package", env_path, input_text, r)>>, TRUE)
                 /\ UNCHANGED <<packages, selected_package>>
            ELSE \E res \in ListResults :
                     /\ packages' = PackagesAfter(res)
                     /\ selected_package' = SelectedPackageAfter(res)
                     /\ status_message' = "Installed"
                     /\ state' = "Normal"
                     /\ pc' = "tick"
                     /\ Handled("Enter", <<Mutation("install_package", env_path, input_text, r),
                                           Listing("list_packages", env_path, res)>>, TRUE)
    /\ UNCHANGED <<dialog_state, environments, selected_environment, focus, input_text, status_message_timer, show_global_packages>>

----------------------------------------------------------------------------
(* AppState::UninstallPackage *)

\* a slip: Esc leaves the mode and not the dialog
UninstallEscKeepsDialog ==
    /\ pc = "poll" /\ state = "UninstallPackage"
    /\ state' = "Normal"
    /\ pc' = "tick"
    /\ Handled("Esc", <<>>, FALSE)
    /\ UNCHANGED <<dialog_state, environments, selected_environment, packages, selected_package, focus, input_text, status_message, status_message_timer, show_global_packages>>

UninstallEsc ==
    /\ pc = "poll" /\ state = "UninstallPackage"
    /\ state' = "Normal"
    /\ dialog_state' = "None"
    /\ pc' = "tick"
    /\ Handled("Esc", <<>>, FALSE)
    /\ UNCHANGED <<environments, selected_environment, packages, selected_package, focus, input_text, status_message, status_message_timer, show_global_packages>>

UninstallNo ==
    /\ pc = "poll" /\ state = "UninstallPackage"
    /\ state' = "Normal"
    /\ dialog_state' = "None"
    /\ pc' = "tick"
    /\ Handled("n", <<>>, FALSE)
    /\ UNCHANGED <<environments, selected_environment, packages, selected_package, focus, input_text, status_message, status_message_timer, show_global_packages>>

UninstallYes ==
    /\ pc = "poll" /\ state = "UninstallPackage"
    /\ \E w \in InstallWorlds :
        LET env_idx == selected_environment
            pkg_idx == selected_package
            env_path == At(environments, env_idx).path
            pkg_name == At(packages, pkg_idx)
            r == uninstall_package(w, pkg_name)
            ok == r.ok
        IN  IF ~CanUninstall
            THEN /\ state' = "Normal"
                 /\ dialog_state' = "None"
                 /\ pc' = "tick"
                 /\ Handled("y", <<>>, FALSE)
                 /\ UNCHANGED <<packages, selected_package, status_message>>
            ELSE IF EnvIndexOutOfBounds(environments, env_idx)
            THEN /\ pc' = "panic"
                 /\ Handled("y", <<>>, FALSE)
                 /\ UNCHANGED <<state, dialog_state, packages, selected_package, status_message>>
            ELSE IF ~ok
            THEN /\ status_message' = "ErrUninstall"
                 /\ state' = "Normal"
                 /\ dialog_state' = "None"
                 /\ pc' = "tick"
                 /\ Handled("y", <<Mutation("uninstall_package", env_path, pkg_name, r)>>, TRUE)
                 /\ UNCHANGED <<packages, selected_package>>
            ELSE \E res \in ListResults :
                     /\ packages' = PackagesAfter(res)
                     /\ selected_package' = (IF res.ok THEN Min(pkg_idx, SaturatingSub(Len(res.pkgs), 1)) ELSE selected_package)
                     /\ status_message' = "Uninstalled"
                     /\ state' = "Normal"
                     /\ dialog_state' = "None"
                     /\ pc' = "tick"
                     /\ Handled("y", <<Mutation("uninstall_package", env_path, pkg_name, r),
                                       Listing("list_packages", env_path, res)>>, TRUE)
    /\ UNCHANGED <<environments, selected_environment, focus, input_text, status_message_timer, show_global_packages>>

----------------------------------------------------------------------------
(* AppState::SearchEnvironment *)

\* a slip: Esc leaves the search dialog open
SearchEscKeepsMode ==
    /\ pc = "poll" /\ state = "SearchEnvironment"
    /\ pc' = "tick"
    /\ Handled("Esc", <<>>, FALSE)
    /\ UNCHANGED app

SearchEsc ==
    /\ pc = "poll" /\ state = "SearchEnvironment"
    /\ state' = "Normal"
    /\ pc' = "tick"
    /\ Handled("Esc", <<>>, FALSE)
    /\ UNCHANGED <<dialog_state, environments, selected_environment, packages, selected_package, focus, input_text, status_message, status_message_timer, show_global_packages>>

SearchChar ==
    /\ pc = "poll" /\ state = "SearchEnvironment"
    /\ Len(input_text) < MaxInput
    /\ \E c \in Alphabet : input_text' = Append(input_text, c)
    /\ pc' = "tick"
    /\ Handled("Char", <<>>, FALSE)
    /\ UNCHANGED <<state, dialog_state, environments, selected_environment, packages, selected_package, focus, status_message, status_message_timer, show_global_packages>>

SearchBackspace ==
    /\ pc = "poll" /\ state = "SearchEnvironment"
    /\ input_text' = Pop(input_text)
    /\ pc' = "tick"
    /\ Handled("Backspace", <<>>, FALSE)
    /\ UNCHANGED <<state, dialog_state, environments, selected_environment, packages, selected_package, focus, status_message, status_message_timer, show_global_packages>>

\* a slip: the filter lets every environment through
FilteredEnvsAll(envs, text) == 0..(Len(envs) - 1)

\* the filter of the search: the 0-based indices of the matching environments
FilteredEnvs(envs, text) ==
    LET search_term == ToLowercase(text)
    IN  {i \in 0..(Len(envs) - 1) :
            \/ Contains(ToLowercase(At(envs, i).name), search_term)
            \/ Contains(ToLowercase(At(envs, i).path), search_term)}

\* a slip: the last match is taken
FirstFromEnd(S) == CHOOSE i \in S : \A j \in S : i >= j

\* filtered_envs[0]
First(S) == CHOOSE i \in S : \A j \in S : i <= j

SearchEnter ==
    /\ pc = "poll" /\ state = "SearchEnvironment"
    /\ LET filtered_envs == FilteredEnvs(environments, input_text)
        IN  IF input_text = <<>>
            THEN /\ Handled("Enter", <<>>, FALSE)
                 /\ UNCHANGED <<selected_environment, packages, selected_package, status_message>>
            ELSE IF filtered_envs = {}
            THEN /\ status_message' = "NoMatch"
                 /\ Handled("Enter", <<>>, TRUE)
                 /\ UNCHANGED <<selected_environment, packages, selected_package>>
            ELSE \E res \in ListResults :
                     /\ selected_environment' = First(filtered_envs)
                     /\ packages' = PackagesAfter(res)
                     /\ selected_package' = SelectedPackageAfter(res)
                     /\ status_message' = "Found"
                     /\ Handled("Enter", <<Listing("list_packages", At(environments, First(filtered_envs)).path, res)>>, TRUE)
    /\ state' = "Normal"
    /\ pc' = "tick"
    /\ UNCHANGED <<dialog_state, environments, focus, input_text, status_message_timer, show_global_packages>>

----------------------------------------------------------------------------
(* The rest of the loop: the poll that times out, the tick, the draw *)

PollTimeout ==
    /\ pc = "poll"
    /\ pc' = "tick"
    /\ UNCHANGED <<app, hist, scenario>>

\* terminal.draw of the next iteration
Draw ==
    pc' = IF RenderPanics(state', dialog_state', environments', selected_environment', status_message', show_global_packages')
          THEN "panic" ELSE "poll"

\* a slip: the threshold is never met
TimerNeverExpires(timer) == timer > StatusLifetime + 1

\* a slip: >= for >
TimerExpiredEarly(timer) == timer >= StatusLifetime

\* app.status_message_timer > 20
TimerExpired(timer) == timer > StatusLifetime

\* the tick interval has elapsed
Tick ==
    /\ pc = "tick"
    /\ status_message = NoStatus \/ status_message_timer < TickCap
    /\ status_message' = (IF status_message # NoStatus /\ TimerExpired(status_message_timer + 1)
                          THEN NoStatus ELSE status_message)
    /\ status_message_timer' = (IF status_message = NoStatus THEN status_message_timer
                                ELSE IF TimerExpired(status_message_timer + 1) THEN 0
                                ELSE status_message_timer + 1)
    /\ UNCHANGED <<state, dialog_state, environments, selected_environment, packages, selected_package, focus, input_text, show_global_packages>>
    /\ last_key' = "none"
    /\ calls' = <<>>
    /\ posted' = FALSE
    /\ status_age' = (IF status_age >= 0 /\ status_age <= StatusLifetime THEN status_age + 1 ELSE status_age)
    /\ UNCHANGED <<packages_from, scenario>>
    /\ Draw

\* the tick interval has not elapsed
NoTick ==
    /\ pc = "tick"
    /\ UNCHANGED <<app, status_age, packages_from, scenario>>
    /\ last_key' = "none"
    /\ calls' = <<>>
    /\ posted' = FALSE
    /\ Draw

----------------------------------------------------------------------------
Next ==
    \/ KeyQuit \/ KeyDown \/ KeyUp \/ KeyTab \/ KeyEnter \/ KeyN \/ KeyD \/ KeyI
    \/ KeyR \/ KeyS \/ KeyG \/ KeyRefresh \/ KeyX \/ KeyIgnored \/ HelpClose
    \/ CreateEsc \/ CreateChar \/ CreateBackspace \/ CreateEnter
    \/ DeleteEsc \/ DeleteNo \/ DeleteYes
    \/ InstallEsc \/ InstallChar \/ InstallBackspace \/ InstallEnter
    \/ UninstallEsc \/ UninstallNo \/ UninstallYes
    \/ SearchEsc \/ SearchChar \/ SearchBackspace \/ SearchEnter
    \/ PollTimeout \/ Tick \/ NoTick

Spec == Init /\ [][Next]_vars

SpecLists == InitLists /\ [][Next]_vars

SpecDecay == InitDecay /\ [][Next]_vars

SpecTools == InitTools /\ [][Next]_vars

SpecListing == InitListing /\ [][Next]_vars

SpecDiscovery == InitDiscovery /\ [][Next]_vars

SpecModal == InitModal /\ [][Next]_vars

\* the loop of main goes on while the session neither quit nor aborted, and
\* since every iteration takes time, the tick interval elapses again and
\* again (main.rs:52-56, 410-411)
SpecTicking == InitTicking /\ [][Next]_vars /\ WF_vars(Next) /\ SF_vars(Tick)

----------------------------------------------------------------------------
(* The claims *)

IsValidIndex(sel, list) == sel # None /\ sel >= 0 /\ sel < Len(list)

HasCall(cs, op) == \E k \in 1..Len(cs) : cs[k].op = op

\* C1: selected_environment is None exactly when the environment list is
\* empty, and otherwise an index below the length of the list.
SelectedEnvironmentValid ==
    /\ selected_environment = None <=> environments = <<>>
    /\ selected_environment # None => IsValidIndex(selected_environment, environments)

\* C2: selected_package is None exactly when the package list is empty, and
\* otherwise an index below the length of the list.
SelectedPackageValid ==
    /\ selected_package = None <=> packages = <<>>
    /\ selected_package # None => IsValidIndex(selected_package, packages)

\* C3: no sequence of events and tool outcomes aborts the session: no index
\* into a list, in a handler or in the view, is out of bounds.
SessionNeverAborts == pc # "panic"

\* C4: in DeleteEnvironment the selected environment is a valid index, in
\* UninstallPackage the selected environment and package both are.
ConfirmHasValidSelection ==
    /\ state = "DeleteEnvironment" => IsValidIndex(selected_environment, environments)
    /\ state = "UninstallPackage" =>
           /\ IsValidIndex(selected_environment, environments)
           /\ IsValidIndex(selected_package, packages)

\* C5: delete_environment is called only on 'y' in DeleteEnvironment, and
\* uninstall_package only on 'y' in UninstallPackage.
DestructiveOnlyOnConfirm ==
    [][\A k \in 1..Len(calls') :
          /\ calls'[k].op = "delete_environment" =>
                 pc = "poll" /\ state = "DeleteEnvironment" /\ dialog_state = "Confirm" /\ last_key' = "y"
          /\ calls'[k].op = "uninstall_package" =>
                 pc = "poll" /\ state = "UninstallPackage" /\ dialog_state = "Confirm" /\ last_key' = "y"]_vars

DeletePerformed ==
    /\ HasCall(calls, "delete_environment")
    /\ last_key = "y"
    /\ status_message = "Deleted"

\* C6: in a confirm mode 'n' and Esc call nothing and change only the mode
\* and the dialog flag, which return to Normal and None.
DeclineHasNoEffect ==
    [][(pc = "poll" /\ state \in {"DeleteEnvironment", "UninstallPackage"} /\ last_key' \in {"n", "Esc"}) =>
          /\ calls' = <<>>
          /\ state' = "Normal"
          /\ dialog_state' = "None"
          /\ UNCHANGED <<environments, selected_environment, packages, selected_package, focus,
                         input_text, status_message, status_message_timer, show_global_packages>>]_vars

\* 'n' leads to Normal from a confirm mode alone: in Normal it opens
\* CreateEnvironment, in a text mode it is a character
Declined ==
    /\ pc = "tick" /\ last_key = "n" /\ state = "Normal"
    /\ environments # <<>> /\ packages # <<>>

\* C7: a confirmed deletion of the selected environment i of L that succeeds
\* removes exactly element i and leaves the selection at min(i, L - 2), or
\* None when L = 1; one that fails leaves list and selection as they were.
DeleteUpdatesSelection ==
    [][(pc = "poll" /\ state = "DeleteEnvironment" /\ last_key' = "y"
          /\ IsValidIndex(selected_environment, environments)) =>
          LET i == selected_environment
              L == Len(environments)
          IN  /\ HasCall(calls', "delete_environment")
              /\ calls'[1].ok =>
                    /\ Len(environments') = L - 1
                    /\ \A k \in 1..(L - 1) : environments'[k] = environments[IF k <= i THEN k ELSE k + 1]
                    /\ selected_environment' = (IF L > 1 THEN (IF i < L - 2 THEN i ELSE L - 2) ELSE None)
              /\ ~calls'[1].ok => UNCHANGED <<environments, selected_environment>>]_vars

\* index 1 of the three discovered environments was deleted
DeletedMiddleOfThree ==
    /\ pc = "tick" /\ last_key = "y"
    /\ HasCall(calls, "delete_environment") /\ calls[1].ok /\ calls[1].target = Discoverable[2].path
    /\ environments = <<Discoverable[1], Discoverable[3]>>
    /\ selected_environment = 1

\* C8: a status posted while another is shown starts with the full
\* lifetime: the timer is back at 0.
PostResetsTimer == [][posted' => status_message_timer' = 0]_vars

\* the number of ticks a status posted on an idle bar is shown
Lifetime == StatusLifetime + 1

\* C9: a status posted on an idle bar and not replaced is shown after
\* Lifetime - 1 ticks and gone by the Lifetime-th, and a step at the tick
\* point takes exactly one from the ticks that remain, or none.
StatusLivesItsLifetime ==
    /\ []((status_age >= 0 /\ status_age < Lifetime) => status_message # NoStatus)
    /\ [](status_age >= Lifetime => status_message = NoStatus)
    /\ [][(pc = "tick" /\ status_message # NoStatus) =>
             \/ UNCHANGED <<status_message, status_message_timer>>
             \/ /\ status_message' = status_message
                /\ Lifetime - status_message_timer' = (Lifetime - status_message_timer) - 1
                /\ Lifetime - status_message_timer' > 0
             \/ /\ status_message' = NoStatus
                /\ Lifetime - status_message_timer = 1]_vars

StatusExpired ==
    /\ status_age = Lifetime
    /\ status_message = NoStatus
    /\ pc = "poll"

\* C10: an event that posts no status leaves the timer alone, and a step at
\* the tick point changes nothing but the status and its timer.
DecayOnlyByTicks ==
    [][/\ (pc = "poll" /\ ~posted') => status_message_timer' = status_message_timer
       /\ pc = "tick" => UNCHANGED <<state, dialog_state, environments, selected_environment, packages,
                                    selected_package, focus, input_text, show_global_packages>>]_vars

\* a status has aged while text was pending in a text mode
AgedDuringInput ==
    /\ pc = "poll"
    /\ status_message # NoStatus /\ status_message_timer > 1
    /\ state = "InstallPackage" /\ input_text # <<>>

----------------------------------------------------------------------------
(* Modes and text entry *)

\* AppState as main and ui use it; PackageView is never assigned
Modes == {"Normal", "CreateEnvironment", "DeleteEnvironment", "InstallPackage",
          "UninstallPackage", "SearchEnvironment", "HelpMenu"}

TextModes == {"CreateEnvironment", "InstallPackage", "SearchEnvironment"}

\* the handling of an Esc by the arm of the current mode
EscapeStep == Next /\ last_key' = "Esc"

\* C11: the session starts in Normal, and in every other mode, while the
\* session takes events, an Esc can be handled and its handling leads to
\* Normal.
EscapeLeadsToNormal ==
    /\ state = "Normal"
    /\ [](state \in Modes)
    /\ []((pc = "poll" /\ state # "Normal") => ENABLED EscapeStep)
    /\ [][(pc = "poll" /\ state # "Normal" /\ last_key' = "Esc") => state' = "Normal"]_vars

\* Esc closed a text dialog that held text
EscapedWithPendingText ==
    /\ pc = "tick" /\ last_key = "Esc"
    /\ state = "Normal" /\ dialog_state = "None"
    /\ input_text # <<>>

\* C12: in a text mode an Enter with text pending, once handled, leaves the
\* mode at Normal, whether the operation it invoked succeeded or failed.
ConfirmReturnsToNormal ==
    [][(pc = "poll" /\ state \in TextModes /\ input_text # <<>>
          /\ last_key' = "Enter" /\ pc' = "tick") => state' = "Normal"]_vars

\* C13: in a text mode an Enter with no text pending calls nothing and
\* changes neither the lists, the selections nor the status.
EmptyConfirmDoesNothing ==
    [][(pc = "poll" /\ state \in TextModes /\ input_text = <<>> /\ last_key' = "Enter") =>
          /\ calls' = <<>>
          /\ ~posted'
          /\ UNCHANGED <<environments, selected_environment, packages, selected_package,
                         status_message, status_message_timer>>]_vars

\* Enter on the empty create dialog: the dialog stays open
EmptyCreateConfirmed ==
    /\ pc = "tick" /\ last_key = "Enter"
    /\ state = "CreateEnvironment" /\ input_text = <<>>
    /\ calls = <<>>

\* C14: a step from Normal into CreateEnvironment, InstallPackage or
\* SearchEnvironment ends with an empty input_text, whatever it held.
EnteringTextModeClearsInput ==
    [][(state = "Normal" /\ state' \in TextModes) => input_text' = <<>>]_vars

\* the search dialog was opened empty while the status of an install, whose
\* name is still in input_text when it is posted, is shown
SearchOpenedAfterInstall ==
    /\ pc = "tick" /\ last_key = "s"
    /\ state = "SearchEnvironment" /\ input_text = <<>>
    /\ status_message \in {"Installed", "ErrInstall"}

----------------------------------------------------------------------------
(* Navigation and focus *)

\* the list that has the focus, and its selection
FocusedList == IF focus = "Environments" THEN environments ELSE packages

FocusedSelection == IF focus = "Environments" THEN selected_environment ELSE selected_package

RECURSIVE NextTimes(_, _, _)
NextTimes(sel, len, k) == IF k = 0 THEN sel ELSE NextIndex(NextTimes(sel, len, k - 1), len)

RECURSIVE PreviousTimes(_, _, _)
PreviousTimes(sel, len, k) == IF k = 0 THEN sel ELSE PreviousIndex(PreviousTimes(sel, len, k - 1), len)

\* len steps from sel visit each index once and end at sel
CyclesThrough(sel, len) ==
    /\ {NextTimes(sel, len, k) : k \in 1..len} = 0..(len - 1)
    /\ NextTimes(sel, len, len) = sel
    /\ {PreviousTimes(sel, len, k) : k \in 1..len} = 0..(len - 1)
    /\ PreviousTimes(sel, len, len) = sel
    /\ NextIndex(len - 1, len) = 0
    /\ PreviousIndex(0, len) = len - 1
    /\ PreviousIndex(NextIndex(sel, len), len) = sel

\* C15: on a focused list of length L with a valid selection Down selects
\* the next index and Up the one before, circularly; L times Down, or L times
\* Up, visit every index once and end where they began, and Up undoes Down.
NavigationCycles ==
    /\ [](IsValidIndex(FocusedSelection, FocusedList) => CyclesThrough(FocusedSelection, Len(FocusedList)))
    /\ [][(pc = "poll" /\ state = "Normal" /\ IsValidIndex(FocusedSelection, FocusedList)) =>
             LET i == FocusedSelection
                 L == Len(FocusedList)
             IN  /\ last_key' = "Down" => FocusedSelection' = (IF i = L - 1 THEN 0 ELSE i + 1)
                 /\ last_key' = "Up" => FocusedSelection' = (IF i = 0 THEN L - 1 ELSE i - 1)]_vars

\* Down on the last of three environments selected the first
WrappedToFirst ==
    /\ pc = "tick" /\ last_key = "Down"
    /\ focus = "Environments" /\ Len(environments) >= 3
    /\ selected_environment = 0

\* C16: Down and Up in Normal call nothing and change at most the selection
\* of the list that has the focus; on an empty focused list they change
\* nothing, so a selection of None stays None.
NavigationChangesFocusedSelectionOnly ==
    [][(pc = "poll" /\ state = "Normal" /\ last_key' \in {"Down", "Up"}) =>
          /\ calls' = <<>>
          /\ ~posted'
          /\ UNCHANGED <<state, dialog_state, environments, packages, focus, input_text,
                         status_message, status_message_timer, show_global_packages>>
          /\ focus = "Environments" => UNCHANGED selected_package
          /\ focus = "Packages" => UNCHANGED selected_environment
          /\ FocusedList = <<>> => UNCHANGED <<selected_environment, selected_package>>
          /\ (FocusedList = <<>> /\ FocusedSelection = None) => FocusedSelection' = None]_vars

\* a navigation key on the empty package list, beside two environments
NavigatedEmptyPackages ==
    /\ pc = "tick" /\ last_key \in {"Down", "Up"}
    /\ focus = "Packages" /\ packages = <<>> /\ selected_package = None
    /\ Len(environments) >= 2

\* the selection of the list that does not have the focus
OtherSelection == IF focus = "Environments" THEN selected_package ELSE selected_environment

\* C17: Tab moves the focus to the other list; that list's selection becomes
\* 0 if it had none and the list is not empty, and is unchanged if it had
\* one; the selection of the list that had the focus is unchanged.
ToggleFocusKeepsSelections ==
    [][(pc = "poll" /\ state = "Normal" /\ last_key' = "Tab") =>
          /\ focus' = (IF focus = "Environments" THEN "Packages" ELSE "Environments")
          /\ (OtherSelection = None /\ FocusedList' # <<>>) => FocusedSelection' = 0
          /\ OtherSelection # None => FocusedSelection' = OtherSelection
          /\ OtherSelection' = FocusedSelection]_vars

----------------------------------------------------------------------------
(* Listings and discovery *)

SelectedPathIn(envs) ==
    /\ IsValidIndex(selected_environment, environments)
    /\ \E k \in 1..Len(envs) : envs[k].path = At(environments, selected_environment).path

\* C19: 'R' makes the list a fresh discovery returns the environment list;
\* if the path of the environment selected before is not in it, the first
\* element is selected, or nothing when the list is empty.
RefreshResetsSelection ==
    [][(pc = "poll" /\ state = "Normal" /\ last_key' = "R") =>
          /\ Len(calls') = 1
          /\ calls'[1].op = "list_environments"
          /\ environments' = calls'[1].out
          /\ ~SelectedPathIn(environments') =>
                 selected_environment' = (IF environments' # <<>> THEN 0 ELSE None)]_vars

----------------------------------------------------------------------------
(* Search *)

\* t occurs in s when the case of letters is ignored
OccursIgnoringCase(s, t) ==
    \E k \in 0..(Len(s) - Len(t)) : \A j \in 1..Len(t) : Lower(s[k + j]) = Lower(t[j])

NothingMatches(envs, term) ==
    \A k \in 1..Len(envs) : ~OccursIgnoringCase(envs[k].name, term) /\ ~OccursIgnoringCase(envs[k].path, term)

\* C20: an Enter in SearchEnvironment with a term that occurs in no name and
\* no path, case ignored, calls nothing, leaves both selections and the lists
\* unchanged and posts the status of no match.
NoMatchLeavesSelection ==
    [][(pc = "poll" /\ state = "SearchEnvironment" /\ last_key' = "Enter"
          /\ input_text # <<>> /\ NothingMatches(environments, input_text)) =>
          /\ calls' = <<>>
          /\ UNCHANGED <<environments, selected_environment, packages, selected_package>>
          /\ posted'
          /\ status_message' = "NoMatch"]_vars

\* a search among environments found none
NoMatchPosted ==
    /\ pc = "tick" /\ last_key = "Enter"
    /\ status_message = "NoMatch" /\ posted
    /\ environments # <<>> /\ input_text # <<>>
    /\ state = "Normal"

\* the environment at 0-based index i matches the term
MatchesAt(envs, i, term) ==
    OccursIgnoringCase(envs[i + 1].name, term) \/ OccursIgnoringCase(envs[i + 1].path, term)

----------------------------------------------------------------------------
(* The chains of python.rs *)

IsMutation(c) == c.op \in {"install_package", "uninstall_package"}

\* no candidate of the chain exists
NoneExists(world) == \A j \in 1..Len(world) : world[j] = "missing"

\* C22: install and uninstall return ToolMissing exactly when none of the
\* candidate executables exists, and never when some candidate exists;
\* ToolMissing and ExecutionFailure are different outcomes.
ToolMissingIffNoneExists ==
    /\ ToolMissing # ExecutionFailure
    /\ \A k \in 1..Len(calls) :
           IsMutation(calls[k]) =>
               (calls[k].run.error = ToolMissing <=> NoneExists(calls[k].run.world))

\* the first candidate that exists, 0 if there is none
FirstExisting(world) ==
    IF NoneExists(world) THEN 0
    ELSE CHOOSE j \in 1..Len(world) :
             /\ world[j] # "missing"
             /\ \A i \in 1..(j - 1) : world[i] = "missing"

\* C23: in install and uninstall the chain advances only from a missing
\* candidate: the first candidate that exists is the only one invoked, and
\* its result is the result of the operation.
FirstExistingDecides ==
    \A k \in 1..Len(calls) :
        IsMutation(calls[k]) =>
            LET r == calls[k].run
                j == FirstExisting(r.world)
            IN  IF j = 0
                THEN r.invoked = <<>> /\ ~r.ok
                ELSE /\ Len(r.invoked) = 1
                     /\ r.invoked[1].path = r.candidates[j]
                     /\ r.ok <=> r.world[j] = "exit_ok"
                     /\ r.world[j] = "exit_nonzero" => r.error = ExecutionFailure

\* the package manager of the environment, its alias, and the interpreter of
\* the environment
Candidates == <<"bin/pip", "bin/pip3", "bin/python">>

\* the interpreter runs the package manager as a module
ModulePrefix(path) == IF path = "bin/python" THEN <<"-m", "pip">> ELSE <<>>

Subcommand(c) ==
    IF c.op = "install_package" THEN <<"install", c.arg>>
    ELSE IF c.op = "uninstall_package" THEN <<"uninstall", "-y", c.arg>>
    ELSE <<"list", "--format=json">>

Position(path) == CHOOSE j \in 1..Len(Candidates) : Candidates[j] = path

\* the runs of the candidates: all but the run of the script, which is the
\* fourth step of the listing
CandidateRuns(c) == SelectSeq(c.run.invoked, LAMBDA inv : inv.args[1] # "-c")

\* C24: install, uninstall and the listing of an environment consider the
\* same three candidates in the same order, the interpreter in module mode,
\* and differ only in the subcommand.
SameCandidatesSameOrder ==
    \A k \in 1..Len(calls) :
        calls[k].op \in {"install_package", "uninstall_package", "list_packages"} =>
            LET runs == CandidateRuns(calls[k])
            IN  /\ calls[k].run.candidates = Candidates
                /\ \A i \in 1..Len(runs) :
                       /\ runs[i].path \in Range(Candidates)
                       /\ runs[i].args = ModulePrefix(runs[i].path) \o Subcommand(calls[k])
                       /\ \A j \in 1..(i - 1) : Position(runs[j].path) < Position(runs[i].path)

UninstalledByInterpreterThenListed ==
    /\ pc = "tick"
    /\ Len(calls) = 2
    /\ calls[1].op = "uninstall_package"
    /\ calls[1].ok
    /\ calls[1].run.world[1] = "spawn_err"
    /\ calls[1].run.world[2] = "missing"
    /\ Len(calls[1].run.invoked) = 2
    /\ calls[1].run.invoked[2] = [path |-> "bin/python", args |-> <<"-m", "pip", "uninstall", "-y", 1>>]
    /\ calls[2].op = "list_packages"
    /\ calls[2].run.invoked # <<>>

\* the steps of list_packages: the three candidates, then the script on the
\* interpreter
StepPaths == <<"bin/pip", "bin/pip3", "bin/python", "bin/python">>

\* the step exists, exits cleanly and its output is an array
Parses(world, j) == world[j].kind = "parsed"

\* the first step that parses, 0 if none does
FirstParsing(world) ==
    IF \A j \in 1..Len(world) : ~Parses(world, j) THEN 0
    ELSE CHOOSE j \in 1..Len(world) : Parses(world, j) /\ \A i \in 1..(j - 1) : ~Parses(world, i)

\* the steps up to j whose file exists
ExistingUpTo(world, j) == {i \in 1..j : world[i].kind # "missing"}

\* C25: list_packages returns the parsed packages of the first of its four
\* steps that exists, exits cleanly and parses; no later step is invoked.
\* With the first two candidates absent and the third parsing, the result
\* is what the third printed.
FirstParsingStepWins ==
    \A k \in 1..Len(calls) :
        calls[k].op = "list_packages" =>
            LET r == calls[k].run
                j == FirstParsing(r.world)
            IN  j # 0 =>
                    /\ calls[k].ok
                    /\ calls[k].out = r.world[j].pkgs
                    /\ Len(r.invoked) = Cardinality(ExistingUpTo(r.world, j))
                    /\ r.invoked[Len(r.invoked)].path = StepPaths[j]
                    /\ r.invoked[Len(r.invoked)].args[1] = "-c" <=> j = 4

ThirdCandidateParsed ==
    /\ pc = "tick"
    /\ Len(calls) = 1
    /\ calls[1].op = "list_packages"
    /\ calls[1].run.world[1] = Missing
    /\ calls[1].run.world[2] = Missing
    /\ calls[1].run.world[3] = Parsed(<<1>>)
    /\ calls[1].run.world[4] = Parsed(<<>>)
    /\ packages = <<1>>

IsListing(c) == c.op \in {"list_packages", "list_global_packages"}

\* C26: in list_packages and in list_global_packages a step that exits
\* cleanly with output that is no array is a failed step: the chain goes on,
\* and the result is that of the first later step that parses.
UnparsableStepIsPassedOver ==
    \A k \in 1..Len(calls) :
        IsListing(calls[k]) =>
            LET r == calls[k].run
                j == FirstParsing(r.world)
            IN  (j # 0 /\ \E u \in 1..(j - 1) : r.world[u].kind = "unparsable") =>
                    /\ calls[k].ok
                    /\ calls[k].out = r.world[j].pkgs

\* C27: list_packages and list_global_packages never return Err; when no
\* step parses they return the empty list.
ListingNeverErrs ==
    \A k \in 1..Len(calls) :
        IsListing(calls[k]) =>
            /\ calls[k].ok
            /\ FirstParsing(calls[k].run.world) = 0 => calls[k].out = <<>>

\* the statuses that report a failure
FailureStatuses == {"ErrCreate", "ErrDelete", "ErrInstall", "ErrUninstall", "ErrListing", "ErrGlobal"}

\* the call returned Err, or it is a listing of which no step parsed
FailedCall(c) ==
    /\ c.op \in {"create_environment", "delete_environment", "install_package",
                 "uninstall_package", "list_packages", "list_global_packages"}
    /\ \/ ~c.ok
       \/ IsListing(c) /\ FirstParsing(c.run.world) = 0

\* C28: when a create, delete, install, uninstall or listing fails while an
\* event is handled, a failure status is shown once the event is handled;
\* it is not dropped or replaced by a success message of the same event.
FailureLeavesFailureStatus ==
    pc = "tick" =>
        \A k \in 1..Len(calls) : FailedCall(calls[k]) => status_message \in FailureStatuses

----------------------------------------------------------------------------
(* The environment list *)

\* C29: the environment list never holds two entries with the same path,
\* after a discovery and after a create.
NoDuplicatePaths ==
    \A i, j \in 1..Len(environments) :
        environments[i].path = environments[j].path => i = j

IsDiscovery(c) == c.op = "list_environments"

\* what the probe of the system interpreters finds when nothing fails in it:
\* python, and python3 unless it is the interpreter python is
SystemCandidates(world) ==
    LET first == IF world.python.kind = "located" THEN <<Env(<<"S">>, world.python.path)>> ELSE <<>>
        second == IF /\ world.python3.kind = "located"
                     /\ world.python.kind = "located" => world.python.path # world.python3.path
                  THEN <<Env(<<"S", "3">>, world.python3.path)>>
                  ELSE <<>>
    IN  first \o second

\* what that probe has pushed when a query for a path cannot be started
FoundBeforeFailure(world) ==
    IF world.python.kind = "located" THEN <<Env(<<"S">>, world.python.path)>> ELSE <<>>

\* what the four later probes find
LaterCandidates(world) == world.venv \o world.pyenv \o world.conda \o world.local

\* C30, as stated: list_environments never fails, a failure in a probe stops
\* no later probe, and the list is made of the candidates of the probes that
\* succeeded.
DiscoveryOfSucceededProbes ==
    \A k \in 1..Len(calls) :
        IsDiscovery(calls[k]) =>
            LET r == calls[k].run
            IN  /\ calls[k].ok
                /\ Len(r.probes) = 5
                /\ calls[k].out = (IF r.probes[1] THEN SystemCandidates(r.world) ELSE <<>>)
                                      \o LaterCandidates(r.world)

\* C30, amended: list_environments never fails, a failure in a probe stops
\* no later probe, and the list is made, in the order of the probes, of the
\* candidates of the probes that succeeded and of what a failing probe had
\* pushed before it failed.
DiscoveryNeverFails ==
    \A k \in 1..Len(calls) :
        IsDiscovery(calls[k]) =>
            LET r == calls[k].run
            IN  /\ calls[k].ok
                /\ Len(r.probes) = 5
                /\ calls[k].out = (IF r.probes[1] THEN SystemCandidates(r.world)
                                                  ELSE FoundBeforeFailure(r.world))
                                      \o LaterCandidates(r.world)

LaterProbesFoundAfterFailure ==
    /\ pc = "tick"
    /\ Len(calls) = 1
    /\ IsDiscovery(calls[1])
    /\ calls[1].run.world.python = PathQueryErr
    /\ ~calls[1].run.probes[1]
    /\ calls[1].run.world.venv # <<>>
    /\ calls[1].run.world.local # <<>>
    /\ environments = calls[1].run.world.venv \o calls[1].run.world.local
    /\ status_message = "Refreshed"

\* the candidates of all probes in the order of the probes
CandidatesInOrder(world) ==
    (IF world.python.kind = "located" THEN <<Env(<<"S">>, world.python.path)>> ELSE <<>>)
        \o (IF world.python3.kind = "located" THEN <<Env(<<"S", "3">>, world.python3.path)>> ELSE <<>>)
        \o LaterCandidates(world)

\* the entries of a list whose path no earlier entry has
RECURSIVE FirstSeen(_)
FirstSeen(envs) ==
    IF envs = <<>> THEN <<>>
    ELSE LET front == FirstSeen(SubSeq(envs, 1, Len(envs) - 1))
             last == envs[Len(envs)]
         IN  IF \E k \in 1..Len(front) : front[k].path = last.path THEN front ELSE Append(front, last)

AllProbesSucceeded(r) == \A k \in 1..Len(r.probes) : r.probes[k]

\* C31: list_environments appends the candidates in the order system,
\* virtualenv directories, pyenv, conda, current directory, and of two
\* candidates with the same path it keeps the earlier and drops the later.
DiscoveryFirstSeenWins ==
    \A k \in 1..Len(calls) :
        (IsDiscovery(calls[k]) /\ AllProbesSucceeded(calls[k].run)) =>
            calls[k].out = FirstSeen(CandidatesInOrder(calls[k].run.world))

PathsOf(envs) == {envs[k].path : k \in 1..Len(envs)}

NoTwoWithSamePath(envs) == \A i, j \in 1..Len(envs) : envs[i].path = envs[j].path => i = j

\* C32: list_environments run twice over the same state of the files and
\* tools gives the same set of paths, and neither result holds a path twice.
DiscoveryTwiceSamePaths ==
    \A k \in 1..Len(calls) :
        IsDiscovery(calls[k]) =>
            LET again == list_environments(calls[k].run.world)
            IN  /\ PathsOf(again.envs) = PathsOf(calls[k].out)
                /\ NoTwoWithSamePath(calls[k].out)
                /\ NoTwoWithSamePath(again.envs)

----------------------------------------------------------------------------
(* Create *)

\* C33: when the subcommand of create_environment exits non-zero, the call
\* returns an Err that carries the captured stderr; the environment list,
\* the selected environment and the package list stay as they were and a
\* failure status is posted.
CreateFailureLeavesLists ==
    [][\A k \in 1..Len(calls') :
          (calls'[k].op = "create_environment" /\ calls'[k].run.world = "exit_nonzero") =>
              /\ ~calls'[k].ok
              /\ calls'[k].run.error = "Failed to create environment: stderr"
              /\ environments' = environments
              /\ selected_environment' = selected_environment
              /\ packages' = packages
              /\ selected_package' = selected_package
              /\ status_message' = "ErrCreate"
              /\ posted']_vars

CreateFailedOverLoadedList ==
    /\ pc = "tick" /\ last_key = "Enter"
    /\ Len(calls) = 1
    /\ calls[1].op = "create_environment"
    /\ calls[1].run.world = "exit_nonzero"
    /\ environments # <<>>
    /\ packages # <<>>
    /\ status_message = "ErrCreate"

\* C34: after a successful create the environment list is the list before
\* with the new environment as its last element, the new element is
\* selected, the package list is the listing of the new environment, and a
\* success status is posted.
CreateAppendsAndLists ==
    [][(calls' # <<>> /\ calls'[1].op = "create_environment" /\ calls'[1].ok) =>
          /\ environments' = Append(environments, Env(input_text, VenvDir(input_text)))
          /\ selected_environment' = Len(environments)
          /\ Len(calls') = 2
          /\ calls'[2].op = "list_packages"
          /\ calls'[2].target = VenvDir(input_text)
          /\ packages' = calls'[2].out
          /\ status_message' = "Created"
          /\ posted']_vars


OnlyInputTextChanges ==
    UNCHANGED <<state, dialog_state, environments, selected_environment, packages, selected_package,
                focus, status_message, status_message_timer, show_global_packages>>

UninstallsFromLoadedList ==
    [][\A k \in 1..Len(calls') :
           calls'[k].op = "uninstall_package" =>
               /\ calls'[k].arg \in Range(packages)
               /\ packages_from = [kind |-> "environment", path |-> calls'[k].target]]_vars


\* C37: show_global_packages is true exactly when the held package list is
\* the result of the most recent machine-wide listing: no handler puts the
\* packages of an environment into the list and leaves the flag true, and
\* none turns the flag off and leaves the machine-wide packages in the list.
GlobalFlagTellsTheSource ==
    show_global_packages <=> packages_from.kind = "global"


ConfirmModes == {"DeleteEnvironment", "UninstallPackage"}

\* C38: dialog_state is Confirm exactly when the mode is DeleteEnvironment or
\* UninstallPackage, in every state and so across every step that enters or
\* leaves one of the two modes.
DialogIsConfirmInConfirmModes ==
    dialog_state = "Confirm" <=> state \in ConfirmModes

\* 'r' has just opened the confirmation of an uninstall
UninstallConfirmOpened ==
    /\ state = "UninstallPackage" /\ last_key = "r" /\ dialog_state = "Confirm"
    /\ IsValidIndex(selected_package, packages)


\* C39: after 'y' uninstalled the package selected at index i and the list
\* was loaded again with M packages, selected_package is min(i, M - 1) when
\* M > 0 and None when M = 0; when the uninstall failed, the package list and
\* its selection are unchanged.
UninstallReselects ==
    [][(calls' # <<>> /\ calls'[1].op = "uninstall_package") =>
           IF ~calls'[1].ok
           THEN UNCHANGED <<packages, selected_package>>
           ELSE (Len(calls') = 2 /\ calls'[2].ok) =>
                    LET M == Len(calls'[2].out)
                    IN  /\ packages' = calls'[2].out
                        /\ selected_package' = (IF M > 0 THEN Min(selected_package, M - 1) ELSE None)]_vars


Ended == pc \in {"quit", "panic"}

\* C40: while the loop goes on and tick intervals keep elapsing, a status
\* that is shown is eventually cleared, and a status that was cleared stays
\* absent until a handler posts one.
StatusEventuallyCleared ==
    /\ (status_message # NoStatus) ~> (status_message = NoStatus \/ Ended)
    /\ [][(status_message = NoStatus /\ status_message' # NoStatus) => posted']_vars

\* a status posted on an idle bar was cleared by a tick while a dialog of
\* another mode was open
ClearedWhileInDialog ==
    /\ status_message = NoStatus /\ status_message_timer = 0
    /\ status_age = Lifetime
    /\ state # "Normal"

====
